---- MODULE Spec2Model ----
(***************************************************************************)
(* Verification model of the audio pipeline core:                          *)
(*   - CircularBuffer  (src/src-tauri/src/audio/buffer.rs)                 *)
(*   - VoiceActivityDetector                                               *)
(*       (src/reference-implementation/src-tauri/src/audio/vad.rs)         *)
(*   - AudioCapture    (src/src-tauri/src/audio/capture.rs)                *)
(*   - PerformanceMonitor (src/src-tauri/src/utils/performance.rs)         *)
(*                                                                         *)
(* Threads.  The owner of the AudioCapture makes the lifecycle calls; each *)
(* cpal stream runs its callback on a thread of its own.  A callback       *)
(* invocation is two steps, split where the detector lock is held, and     *)
(* start_capture is three, split where the state and the new stream become *)
(* visible to the callbacks.                                               *)
(* get_stats is two steps, split where it holds the statistics, and a      *)
(* read_recent running next to other buffer calls is two, split between    *)
(* its load of size and its lock of the data.  Where a reader or a clear()  *)
(* is to hold the lock on the data across steps, it takes and releases it  *)
(* in steps of its own and write_frame waits for it.                       *)
(*                                                                         *)
(* Numbers.  f32 samples and energies are fixed-point integers with Unit   *)
(* standing for 1.0.  A Duration is an integer number of ticks, with       *)
(* TicksPerSecond ticks to the second, so that                             *)
(*   (sample_rate as f64 * duration.as_secs_f64()) as usize                *)
(* is the truncating division (sample_rate * ticks) \div TicksPerSecond.   *)
(***************************************************************************)
EXTENDS Integers, Sequences, FiniteSets, TLC

(* ------------------------------ bounds --------------------------------- *)

\* ticks per second of the modelled Duration values
TicksPerSecond == 2
\* sample rates range over 1..MaxSampleRate (samples per second)
MaxSampleRate == 2
\* the buffer window passed to new ranges over 0..MaxWindowTicks
MaxWindowTicks == 3
\* durations passed to read_recent / has_sufficient_data: 0..MaxDurationTicks
MaxDurationTicks == 4
\* frames handed to write_frame hold 0..MaxFrameLen samples
MaxFrameLen == 4
\* the window of a PerformanceMonitor ranges over 0..MaxMonitorWindow
MaxMonitorWindow == 2
\* measurements recorded in a PerformanceMonitor run
MaxMonitorCalls == 4
\* non-empty frames a detector run processes
MaxVadFrames == 5
\* set_sensitivity, reset and configure_for_environment calls of a detector run
MaxVadConfig == 2
\* callback invocations of one run
MaxCapFrames == 3
\* owner calls (start, stop, listener registration) of one run
MaxCapCalls == 3

\* fixed-point representation of the f32 value 1.0
Unit == 10 * 10 * 10

Min(a, b) == IF a <= b THEN a ELSE b
Max(a, b) == IF a >= b THEN a ELSE b

\* sample values a frame may carry (normalized samples lie in [-1.0, 1.0])
Samples == {0 - Unit, 0, Unit}

SeqsUpTo(S, n) == UNION {[1..k -> S] : k \in 0..n}

BufferFrames == SeqsUpTo(Samples, MaxFrameLen)

(* --------------------------- state ------------------------------------- *)

VARIABLES
    \* CircularBuffer
    buf_state,      \* "unbuilt" before new, "ok" after Ok(Self), "err" after Err
    sample_rate,    \* CircularBuffer.sample_rate
    window,         \* the duration argument of new, in ticks
    capacity,       \* CircularBuffer.capacity
    data,           \* CircularBuffer.data : 0..capacity-1 -> sample
    write_pos,      \* CircularBuffer.write_pos
    read_pos,       \* CircularBuffer.read_pos
    size,           \* CircularBuffer.size
    is_full,        \* CircularBuffer.is_full
    poisoned,       \* the Mutex around data is poisoned: lock() returns Err
    data_lock,      \* who holds the Mutex around data across steps: "free", "reader" or "clear"
    \* a read_recent that runs on a thread of its own, next to the other calls
    rd_pc,          \* "idle", or "loaded" between its load of size and its lock of data
    rd_needed,      \* its samples_needed
    rd_seen,        \* the values `written` took while it ran, kept for the properties only
    \* the last buffer call: its name, its argument and what it returned
    op, arg, ret,
    \* history of the calls, kept for the properties only
    written,        \* samples stored by write_frame since new/clear (last capacity of them)
    offered,        \* samples handed to write_frame since new/clear, saturating at capacity+1
    cleared,        \* TRUE from a clear() until the next write_frame that stores a sample
    \* VoiceActivityDetector
    energy_threshold,   \* VoiceActivityDetector.energy_threshold (fixed point)
    min_speech_frames,  \* VoiceActivityDetector.min_speech_frames
    min_silence_frames, \* VoiceActivityDetector.min_silence_frames
    noise_alpha,        \* VoiceActivityDetector.noise_alpha, in twentieths
    energy_window,      \* VoiceActivityDetector.energy_window, oldest first
    speech_history,     \* VoiceActivityDetector.speech_history, oldest first
    is_speech,          \* VoiceActivityDetector.is_speech
    noise_level,        \* VoiceActivityDetector.noise_level (fixed point)
    total_frames,       \* VoiceActivityDetector.total_frames
    speech_frames,      \* VoiceActivityDetector.speech_frames
    \* the last detector call: its name, its argument and what it returned
    vad_op, vad_arg, vad_ret,
    \* history of the calls, kept for the properties only
    last_raw,           \* raw_speech of the last non-empty frame
    last_returned,      \* is_speech returned for the last non-empty frame
    ever_above,         \* some non-empty frame had a smoothed energy above the configured threshold
    qual_run,           \* consecutive non-empty frames, up to now, raw-classified speech
    qual_from_silent,   \* the detector was silent when that run began
    low_run,            \* consecutive non-empty frames, up to now, with energy below the threshold
    low_from_speech,    \* the detector was in the speech state when that run began
    vad_fed,            \* non-empty frames processed since construction
    vad_cfg,            \* set_sensitivity / reset / configure calls made since construction
    \* AudioCapture
    cap_built,          \* "unbuilt" before AudioCapture::new, "ok" after Ok(Self), "err" after Err
    cap_state,          \* AudioCapture.state
    stream,             \* AudioCapture.stream: 0 for None, else the slot of the stream held
    is_recording,       \* AudioCapture.is_recording
    should_stop,        \* AudioCapture.should_stop
    frames_processed,   \* AudioCapture.frames_processed
    frames_dropped,     \* AudioCapture.frames_dropped
    level_callback,     \* AudioCapture.level_callback: 0 for None, else the listener
    speech_callback,    \* AudioCapture.speech_callback: 0 for None, else the listener
    stats,              \* AudioCapture.stats
    vad_lock,           \* the Mutex around the detector: 0 when free, else the stream whose callback holds it
    stats_lock,         \* the Mutex around the statistics: "free", or "owner" while get_stats holds it
    streams,            \* the cpal streams: whether each delivers callbacks, and the listeners its closure captured
    cb_pc,              \* where the callback of each stream stands: "idle", "locked" or "skipped"
    cb_frame,           \* the AudioFrame of the current (or last) invocation of each stream
    notes,              \* the listener calls made by the current (or last) invocation of each stream
    main_pc,            \* where the owner stands in start_capture: "idle", "starting" or "played"
    \* the last owner call: its name, its argument and what it returned
    cap_op, cap_arg, cap_ret,
    \* history of the calls, kept for the properties only
    cap_fed,            \* callback invocations begun since construction
    fed_at_stop,        \* what cap_fed was at the last stop_capture
    cap_calls,          \* owner calls begun since construction
    \* PerformanceMonitor
    window_size,        \* PerformanceMonitor.window_size
    latencies,          \* the five latency queues, oldest measurement first
    \* history of the calls, kept for the properties only
    recorded            \* every measurement recorded for each component, in recording order

bufVars == <<buf_state, sample_rate, window, capacity, data, write_pos, read_pos,
             size, is_full, poisoned, data_lock, rd_pc, rd_needed, rd_seen, op, arg, ret,
             written, offered, cleared>>

vadVars == <<energy_threshold, min_speech_frames, min_silence_frames, noise_alpha,
             energy_window, speech_history, is_speech, noise_level, total_frames,
             speech_frames, vad_op, vad_arg, vad_ret, last_raw, last_returned, ever_above, qual_run,
             qual_from_silent, low_run, low_from_speech, vad_fed, vad_cfg>>

capVars == <<cap_built, cap_state, stream, is_recording, should_stop, frames_processed,
             frames_dropped, level_callback, speech_callback, stats, vad_lock, stats_lock, streams,
             cb_pc, cb_frame, notes, main_pc, cap_op, cap_arg, cap_ret, cap_fed,
             fed_at_stop, cap_calls>>

perfVars == <<window_size, latencies, recorded>>

vars == <<bufVars, vadVars, capVars, perfVars>>

(* ------------------------ CircularBuffer ------------------------------- *)

\* (sample_rate as f64 * duration.as_secs_f64()) as usize
SamplesIn(rate, ticks) == (rate * ticks) \div TicksPerSecond

\* data[a..b] as a sequence (Rust half-open range a..b)
Slice(d, a, b) == [i \in 1..(b - a) |-> d[a + i - 1]]

\* the last n elements of a sequence (all of it when it is shorter)
LastN(s, n) == IF Len(s) <= n THEN s ELSE SubSeq(s, Len(s) - n + 1, Len(s))

\* let capacity = (sample_rate as f64 * duration.as_secs_f64()) as usize
NewCapacity(rate, ticks) == SamplesIn(rate, ticks)

\* a constructor that also rejects a one-sample buffer
NewRejects_AtMostOne(cap) == cap <= 1

\* if capacity == 0 { return Err(..) }
NewRejects(cap) == cap = 0

\* the buffer before CircularBuffer::new is called with (rate, ticks)
BufferUnbuilt(rate, ticks) ==
    /\ buf_state = "unbuilt"
    /\ sample_rate = rate
    /\ window = ticks
    /\ capacity = 0
    /\ data = <<>>
    /\ write_pos = 0
    /\ read_pos = 0
    /\ size = 0
    /\ is_full = FALSE
    /\ poisoned = FALSE
    /\ data_lock = "free"
    /\ rd_pc = "idle"
    /\ rd_needed = 0
    /\ rd_seen = {}
    /\ op = "none"
    /\ arg = 0
    /\ ret = 0
    /\ written = <<>>
    /\ offered = 0
    /\ cleared = FALSE

\* CircularBuffer::new(sample_rate, duration), on the buffer alone
BufferNew ==
    /\ buf_state = "unbuilt"
    /\ LET cap == NewCapacity(sample_rate, window) IN
        IF NewRejects(cap)
        THEN /\ buf_state' = "err"
             /\ UNCHANGED <<capacity, data>>
        ELSE /\ buf_state' = "ok"
             /\ capacity' = cap
             /\ data' = [i \in 0..(cap - 1) |-> 0]
    /\ write_pos' = 0
    /\ read_pos' = 0
    /\ size' = 0
    /\ is_full' = FALSE
    /\ op' = "new"
    /\ arg' = window
    /\ ret' = IF buf_state' = "ok" THEN "Ok" ELSE "Err"
    /\ UNCHANGED <<sample_rate, window, poisoned, data_lock, rd_pc, rd_needed, rd_seen, written,
                   offered, cleared>>

\* CircularBuffer::new(sample_rate, duration)
New ==
    /\ BufferNew
    /\ UNCHANGED <<vadVars, capVars, perfVars>>

\* a write that forgets to cap the frame at capacity
SamplesToWrite_Uncapped(len, cap) == len

\* let samples_to_write = frame.data.len().min(self.capacity)
SamplesToWrite(len, cap) == Min(len, cap)

\* a write that stops at the end of the backing store instead of wrapping
CopyIn_NoWrap(d, wp, frame, n, cap) ==
    [i \in 0..(cap - 1) |->
        IF wp <= i /\ i < wp + n THEN frame[i - wp + 1] ELSE d[i]]

\* the two copy_from_slice branches of write_frame
CopyIn(d, wp, frame, n, cap) ==
    IF wp + n <= cap
    THEN [i \in 0..(cap - 1) |->
            IF wp <= i /\ i < wp + n THEN frame[i - wp + 1] ELSE d[i]]
    ELSE LET first_chunk == cap - wp
             second_chunk == n - first_chunk
         IN [i \in 0..(cap - 1) |->
                IF i >= wp THEN frame[i - wp + 1]
                ELSE IF i < second_chunk THEN frame[first_chunk + i + 1]
                ELSE d[i]]

\* a cursor that runs past the end of the store instead of wrapping
NewWritePos_NoWrap(wp, n, cap) == wp + n

\* let new_write_pos = (write_pos + samples_to_write) % self.capacity
NewWritePos(wp, n, cap) == (wp + n) % cap

\* a size update that keeps counting past capacity
NewSize_Unbounded(current_size, n, cap) == current_size + n

\* if current_size + samples_to_write >= self.capacity { full } else { grow }
NewSize(current_size, n, cap) ==
    IF current_size + n >= cap THEN cap ELSE current_size + n

NewIsFull(current_size, n, cap, full) ==
    IF current_size + n >= cap THEN TRUE ELSE full

\* write_frame returns Err: the frame is not empty and self.data.lock() fails
WriteFails(frame) == Len(frame) > 0 /\ poisoned

\* the values of `written` a read_recent under way has seen, v being the newest
Seen(v) == IF rd_pc = "loaded" THEN rd_seen \cup {v} ELSE rd_seen

\* CircularBuffer::write_frame(frame), on the buffer alone
BufferWriteFrame(frame) ==
    /\ buf_state = "ok"
    /\ Len(frame) > 0 => data_lock = "free"
    /\ op' = "write_frame"
    /\ arg' = frame
    /\ IF Len(frame) = 0
       THEN /\ ret' = 0
            /\ UNCHANGED <<data, write_pos, size, is_full, written, offered, cleared,
                           rd_seen>>
       ELSE IF WriteFails(frame)
       THEN /\ ret' = "Err"
            /\ UNCHANGED <<data, write_pos, size, is_full, written, offered, cleared,
                           rd_seen>>
       ELSE LET n == SamplesToWrite(Len(frame), capacity) IN
            /\ data' = CopyIn(data, write_pos, frame, n, capacity)
            /\ write_pos' = NewWritePos(write_pos, n, capacity)
            /\ size' = NewSize(size, n, capacity)
            /\ is_full' = NewIsFull(size, n, capacity, is_full)
            /\ ret' = n
            /\ written' = LastN(written \o SubSeq(frame, 1, Min(Len(frame), capacity)),
                                capacity)
            /\ offered' = Min(offered + Len(frame), capacity + 1)
            /\ cleared' = FALSE
            /\ rd_seen' = Seen(written')
    /\ UNCHANGED <<buf_state, sample_rate, window, capacity, read_pos, poisoned, data_lock, rd_pc,
                   rd_needed>>

\* a thread panics while it holds the lock on data: the Mutex stays poisoned
PoisonData ==
    /\ buf_state = "ok"
    /\ ~poisoned
    /\ poisoned' = TRUE
    /\ UNCHANGED <<buf_state, sample_rate, window, capacity, data, write_pos, read_pos,
                   size, is_full, data_lock, rd_pc, rd_needed, rd_seen, op, arg, ret,
                   written, offered, cleared>>
    /\ UNCHANGED <<vadVars, capVars, perfVars>>

\* CircularBuffer::write_frame(frame)
WriteFrame(frame) ==
    /\ BufferWriteFrame(frame)
    /\ UNCHANGED <<vadVars, capVars, perfVars>>

\* a sample count that rounds the duration up instead of truncating it
SamplesNeeded_RoundUp(rate, ticks, sz) ==
    Min((rate * ticks + TicksPerSecond - 1) \div TicksPerSecond, sz)

\* let samples_needed = samples_needed.min(self.size.load(..))
SamplesNeeded(rate, ticks, sz) == Min(SamplesIn(rate, ticks), sz)

\* a read start that never wraps back past the start of the store
ReadStart_NoWrap(wp, n, full, cap) ==
    IF wp >= n THEN wp - n ELSE 0

\* let read_start = if write_pos >= samples_needed {..} else if is_full {..} else { 0 }
ReadStart(wp, n, full, cap) ==
    IF wp >= n THEN wp - n
    ELSE IF full THEN cap - (n - wp)
    ELSE 0

\* the two extend_from_slice branches of read_recent
CopyOut(d, read_start, n, cap) ==
    IF read_start + n <= cap
    THEN Slice(d, read_start, read_start + n)
    ELSE LET first_chunk == cap - read_start
             second_chunk == n - first_chunk
         IN Slice(d, read_start, cap) \o Slice(d, 0, second_chunk)

\* the value read_recent(duration) returns in the current state
ReadRecentValue(ticks) ==
    LET n == SamplesNeeded(sample_rate, ticks, size) IN
    IF n = 0 THEN <<>>
    ELSE IF poisoned THEN "Err"
    ELSE CopyOut(data, ReadStart(write_pos, n, is_full, capacity), n, capacity)

\* CircularBuffer::read_recent(duration)
ReadRecent(ticks) ==
    /\ buf_state = "ok"
    /\ SamplesNeeded(sample_rate, ticks, size) > 0 => data_lock = "free"
    /\ op' = "read_recent"
    /\ arg' = ticks
    /\ ret' = ReadRecentValue(ticks)
    /\ UNCHANGED <<buf_state, sample_rate, window, capacity, data, write_pos,
                   read_pos, size, is_full, poisoned, data_lock, rd_pc, rd_needed, rd_seen,
                   written, offered, cleared>>
    /\ UNCHANGED <<vadVars, capVars, perfVars>>

\* read_recent on its own thread, up to the load of size: samples_needed is
\* fixed here, before data is locked; with nothing to read it returns at once
ReadRecentLoad(ticks) ==
    /\ buf_state = "ok"
    /\ rd_pc = "idle"
    /\ LET n == SamplesNeeded(sample_rate, ticks, size) IN
        /\ rd_needed' = n
        /\ rd_seen' = {written}
        /\ IF n = 0
           THEN /\ rd_pc' = "idle"
                /\ op' = "read_recent"
                /\ arg' = ticks
                /\ ret' = <<>>
           ELSE /\ rd_pc' = "loaded"
                /\ UNCHANGED <<op, arg, ret>>
    /\ UNCHANGED <<buf_state, sample_rate, window, capacity, data, write_pos,
                   read_pos, size, is_full, poisoned, data_lock, written, offered, cleared>>
    /\ UNCHANGED <<vadVars, capVars, perfVars>>

\* the rest of that read_recent: data is locked, write_pos and is_full are
\* loaded and samples_needed samples are copied out
ReadRecentCopy ==
    /\ rd_pc = "loaded"
    /\ data_lock = "free"
    /\ rd_pc' = "idle"
    /\ op' = "read_recent"
    /\ arg' = rd_needed
    /\ ret' = IF poisoned THEN "Err"
              ELSE CopyOut(data, ReadStart(write_pos, rd_needed, is_full, capacity),
                           rd_needed, capacity)
    /\ UNCHANGED <<buf_state, sample_rate, window, capacity, data, write_pos,
                   read_pos, size, is_full, poisoned, data_lock, rd_needed, rd_seen, written,
                   offered, cleared>>
    /\ UNCHANGED <<vadVars, capVars, perfVars>>

\* CircularBuffer::clear()
Clear ==
    /\ buf_state = "ok"
    /\ data_lock = "free"
    /\ op' = "clear"
    /\ arg' = 0
    /\ IF poisoned
       THEN /\ ret' = "Err"
            /\ UNCHANGED <<data, write_pos, read_pos, size, is_full, written, offered,
                           cleared, rd_seen>>
       ELSE /\ data' = [i \in 0..(capacity - 1) |-> 0]
            /\ write_pos' = 0
            /\ read_pos' = 0
            /\ size' = 0
            /\ is_full' = FALSE
            /\ ret' = "Ok"
            /\ written' = <<>>
            /\ offered' = 0
            /\ cleared' = TRUE
            /\ rd_seen' = Seen(written')
    /\ UNCHANGED <<buf_state, sample_rate, window, capacity, poisoned, data_lock, rd_pc, rd_needed>>
    /\ UNCHANGED <<vadVars, capVars, perfVars>>

\* that read_recent takes the lock on data and holds it: self.data.lock()
ReadRecentAcquire ==
    /\ rd_pc = "loaded"
    /\ ~poisoned
    /\ data_lock = "free"
    /\ data_lock' = "reader"
    /\ rd_pc' = "copying"
    /\ UNCHANGED <<buf_state, sample_rate, window, capacity, data, write_pos, read_pos,
                   size, is_full, poisoned, rd_needed, rd_seen, op, arg, ret, written,
                   offered, cleared>>
    /\ UNCHANGED <<vadVars, capVars, perfVars>>

\* a reader that returns its copy and keeps the lock on data
ReadRecentRelease_KeepsLock ==
    /\ rd_pc = "copying"
    /\ rd_pc' = "idle"
    /\ op' = "read_recent"
    /\ arg' = rd_needed
    /\ ret' = CopyOut(data, ReadStart(write_pos, rd_needed, is_full, capacity),
                      rd_needed, capacity)
    /\ UNCHANGED <<buf_state, sample_rate, window, capacity, data, write_pos, read_pos,
                   size, is_full, poisoned, data_lock, rd_needed, rd_seen, written,
                   offered, cleared>>
    /\ UNCHANGED <<vadVars, capVars, perfVars>>

\* the rest of the read_recent that holds the lock: the samples are copied
\* out and the guard is dropped on return
ReadRecentRelease ==
    /\ rd_pc = "copying"
    /\ rd_pc' = "idle"
    /\ data_lock' = "free"
    /\ op' = "read_recent"
    /\ arg' = rd_needed
    /\ ret' = CopyOut(data, ReadStart(write_pos, rd_needed, is_full, capacity),
                      rd_needed, capacity)
    /\ UNCHANGED <<buf_state, sample_rate, window, capacity, data, write_pos, read_pos,
                   size, is_full, poisoned, rd_needed, rd_seen, written, offered, cleared>>
    /\ UNCHANGED <<vadVars, capVars, perfVars>>

\* clear() on a thread of its own takes the lock on data and holds it
ClearAcquire ==
    /\ buf_state = "ok"
    /\ ~poisoned
    /\ data_lock = "free"
    /\ data_lock' = "clear"
    /\ UNCHANGED <<buf_state, sample_rate, window, capacity, data, write_pos, read_pos,
                   size, is_full, poisoned, rd_pc, rd_needed, rd_seen, op, arg, ret,
                   written, offered, cleared>>
    /\ UNCHANGED <<vadVars, capVars, perfVars>>

\* the rest of that clear(): the store is zeroed, the cursors are reset and the
\* guard is dropped on return
ClearRelease ==
    /\ data_lock = "clear"
    /\ data_lock' = "free"
    /\ op' = "clear"
    /\ arg' = 0
    /\ ret' = "Ok"
    /\ data' = [i \in 0..(capacity - 1) |-> 0]
    /\ write_pos' = 0
    /\ read_pos' = 0
    /\ size' = 0
    /\ is_full' = FALSE
    /\ written' = <<>>
    /\ offered' = 0
    /\ cleared' = TRUE
    /\ rd_seen' = Seen(written')
    /\ UNCHANGED <<buf_state, sample_rate, window, capacity, poisoned, rd_pc, rd_needed>>
    /\ UNCHANGED <<vadVars, capVars, perfVars>>

\* self.size >= (sample_rate as f64 * min_duration.as_secs_f64()) as usize
SufficientData(rate, ticks, sz) == sz >= SamplesIn(rate, ticks)

\* CircularBuffer::has_sufficient_data(min_duration)
HasSufficientData(ticks) ==
    /\ buf_state = "ok"
    /\ op' = "has_sufficient_data"
    /\ arg' = ticks
    /\ ret' = SufficientData(sample_rate, ticks, size)
    /\ UNCHANGED <<buf_state, sample_rate, window, capacity, data, write_pos,
                   read_pos, size, is_full, poisoned, data_lock, rd_pc, rd_needed, rd_seen,
                   written, offered, cleared>>
    /\ UNCHANGED <<vadVars, capVars, perfVars>>

(* ---------------------- VoiceActivityDetector -------------------------- *)

\* let window_size = 5
WindowSize == 5
\* min_speech_frames: 2 and min_silence_frames: 3 of VoiceActivityDetector::new
DefaultMinSpeechFrames == 2
DefaultMinSilenceFrames == 3
\* noise_floor: 0.01 and noise_level: 0.01
NoiseFloor == Unit \div 100
InitialNoiseLevel == Unit \div 100
\* noise_alpha: 0.1, in twentieths
DefaultNoiseAlpha == 2

\* the frames handed to process_frame: empty, silent, mixed and loud
VadFrames == {<<>>, <<0, 0>>, <<Unit, 0>>, <<0 - Unit, Unit>>}
\* the energy_threshold values handed to new
VadThresholds == {Unit \div 5, Unit \div 2}
\* the values handed to set_sensitivity (both outside 0.0..1.0, to be clamped)
VadSensitivities == {0 - Unit, 2 * Unit}

RECURSIVE SumSeq(_)
SumSeq(s) == IF s = <<>> THEN 0 ELSE Head(s) + SumSeq(Tail(s))

RECURSIVE SqrtBetween(_, _, _)
SqrtBetween(x, lo, hi) ==
    IF lo >= hi THEN lo
    ELSE LET mid == (lo + hi + 1) \div 2 IN
         IF mid * mid <= x THEN SqrtBetween(x, mid, hi) ELSE SqrtBetween(x, lo, mid - 1)

\* f32::sqrt on fixed-point squares: the largest r with r * r <= x
Sqrt(x) == SqrtBetween(x, 0, Unit)

\* VoiceActivityDetector::calculate_rms_energy
CalculateRmsEnergy(audio_data) ==
    IF Len(audio_data) = 0 THEN 0
    ELSE LET sum_squares == SumSeq([i \in DOMAIN audio_data |-> audio_data[i] * audio_data[i]])
         IN Sqrt(sum_squares \div Len(audio_data))

\* a noise estimate that adapts during speech as well
UpdatedNoise_Always(noise, energy, alpha, speech) ==
    (noise * (20 - alpha) + energy * alpha) \div 20

\* self.noise_level * (1.0 - self.noise_alpha) + energy * self.noise_alpha
UpdatedNoise(noise, energy, alpha, speech) ==
    IF ~speech THEN (noise * (20 - alpha) + energy * alpha) \div 20 ELSE noise

\* a history and a smoothing window that never drop their oldest entry
PushBounded_NoEvict(q, x, limit) == Append(q, x)

\* push_back, then pop_front when longer than the limit
PushBounded(q, x, limit) ==
    LET pushed == Append(q, x) IN
    IF Len(pushed) > limit THEN Tail(pushed) ELSE pushed

\* (self.noise_level * 2.0).max(self.energy_threshold).max(self.noise_floor)
DynamicThreshold(noise, threshold) == Max(Max(noise * 2, threshold), NoiseFloor)

\* a classification that also accepts an energy equal to the threshold
RawSpeech_AtLeast(energies, dynamic_threshold) ==
    SumSeq(energies) >= dynamic_threshold * Len(energies)

\* smoothed_energy > dynamic_threshold, smoothed_energy being sum / len
RawSpeech(energies, dynamic_threshold) ==
    SumSeq(energies) > dynamic_threshold * Len(energies)

\* a count over the newest n entries of the history instead of the oldest
CountFirst_Newest(history, n, b) ==
    Cardinality({i \in (Len(history) - Min(n, Len(history)) + 1)..Len(history) :
                    history[i] = b})

\* how many of the first n entries of the history equal b (iter().take(n).filter(..).count())
CountFirst(history, n, b) ==
    Cardinality({i \in 1..Min(n, Len(history)) : history[i] = b})

\* a rule that activates on the first speech entry, however short the history
DetermineSpeechState_Eager(history, min_speech, min_silence, speech) ==
    IF ~speech
    THEN CountFirst(history, min_speech, TRUE) >= 1
    ELSE ~(CountFirst(history, min_silence, FALSE) >= min_silence)

\* VoiceActivityDetector::determine_speech_state
DetermineSpeechState(history, min_speech, min_silence, speech) ==
    IF Len(history) < min_speech THEN speech
    ELSE LET recent_speech_count == CountFirst(history, min_speech, TRUE)
             recent_silence_count == CountFirst(history, min_silence, FALSE)
         IN IF ~speech
            THEN recent_speech_count >= min_speech
            ELSE ~(recent_silence_count >= min_silence)

\* a confidence that is not cut off at 0 below the threshold
Confidence_Unclamped(energies, dynamic_threshold) ==
    LET total == SumSeq(energies)
        bar == dynamic_threshold * Len(energies)
    IN Min(((total - bar) * Unit) \div bar, Unit)

\* ((smoothed_energy - dynamic_threshold) / dynamic_threshold).min(1.0), or 0.0;
\* rounded up, so that a positive confidence stays positive
Confidence(energies, dynamic_threshold) ==
    LET total == SumSeq(energies)
        bar == dynamic_threshold * Len(energies)
    IN IF total > bar
       THEN Min(((total - bar) * Unit + bar - 1) \div bar, Unit)
       ELSE 0

\* a detector that has processed nothing yet, with these hysteresis lengths
VadFresh(threshold, min_speech, min_silence) ==
    /\ energy_threshold = threshold
    /\ min_speech_frames = min_speech
    /\ min_silence_frames = min_silence
    /\ noise_alpha = DefaultNoiseAlpha
    /\ energy_window = <<>>
    /\ speech_history = <<>>
    /\ is_speech = FALSE
    /\ noise_level = InitialNoiseLevel
    /\ total_frames = 0
    /\ speech_frames = 0
    /\ vad_op = "new"
    /\ vad_arg = threshold
    /\ vad_ret = "Ok"
    /\ last_raw = FALSE
    /\ last_returned = FALSE
    /\ ever_above = FALSE
    /\ qual_run = 0
    /\ qual_from_silent = FALSE
    /\ low_run = 0
    /\ low_from_speech = FALSE
    /\ vad_fed = 0
    /\ vad_cfg = 0

\* the detector VoiceActivityDetector::new(sample_rate, threshold, frame_duration) returns
VadNew(threshold) ==
    VadFresh(threshold, DefaultMinSpeechFrames, DefaultMinSilenceFrames)

\* a process_frame without the early return for an empty frame
IsEmpty_Never(audio_data) == FALSE

\* audio_data.is_empty()
IsEmpty(audio_data) == Len(audio_data) = 0

\* VoiceActivityDetector::process_frame(audio_data), on the detector alone
DetectorProcessFrame(audio_data) ==
    /\ vad_op' = "process_frame"
    /\ vad_arg' = audio_data
    /\ IF IsEmpty(audio_data)
       THEN /\ vad_ret' = [is_speech |-> FALSE, confidence |-> 0, energy_level |-> 0]
            /\ UNCHANGED <<energy_window, speech_history, is_speech, noise_level,
                           total_frames, speech_frames, last_raw, last_returned, ever_above, qual_run,
                           qual_from_silent, low_run, low_from_speech, vad_fed>>
       ELSE LET energy == CalculateRmsEnergy(audio_data)
                noise == UpdatedNoise(noise_level, energy, noise_alpha, is_speech)
                energies == PushBounded(energy_window, energy, WindowSize)
                dynamic_threshold == DynamicThreshold(noise, energy_threshold)
                raw_speech == RawSpeech(energies, dynamic_threshold)
                history == PushBounded(speech_history, raw_speech,
                                       Max(min_speech_frames, min_silence_frames))
                new_speech_state == DetermineSpeechState(history, min_speech_frames,
                                                         min_silence_frames, is_speech)
            IN /\ noise_level' = noise
               /\ energy_window' = energies
               /\ speech_history' = history
               /\ is_speech' = new_speech_state
               /\ total_frames' = total_frames + 1
               /\ speech_frames' = IF new_speech_state THEN speech_frames + 1
                                   ELSE speech_frames
               /\ vad_ret' = [is_speech |-> new_speech_state,
                              confidence |-> Confidence(energies, dynamic_threshold),
                              energy_level |-> SumSeq(energies) \div Len(energies)]
               /\ last_raw' = raw_speech
               /\ last_returned' = new_speech_state
               /\ ever_above' = (ever_above \/
                                   SumSeq(energies) > energy_threshold * Len(energies))
               /\ qual_run' = IF raw_speech THEN Min(qual_run + 1, 3) ELSE 0
               /\ qual_from_silent' = IF raw_speech /\ qual_run = 0 THEN ~is_speech
                                      ELSE qual_from_silent
               /\ low_run' = IF energy < energy_threshold THEN Min(low_run + 1, 5) ELSE 0
               /\ low_from_speech' = IF energy < energy_threshold /\ low_run = 0
                                     THEN is_speech ELSE low_from_speech
               /\ vad_fed' = vad_fed + 1
    /\ UNCHANGED <<energy_threshold, min_speech_frames, min_silence_frames, noise_alpha,
                   vad_cfg>>

\* VoiceActivityDetector::process_frame(audio_data)
ProcessFrame(audio_data) ==
    /\ ~IsEmpty(audio_data) => vad_fed < MaxVadFrames
    /\ DetectorProcessFrame(audio_data)
    /\ UNCHANGED <<bufVars, capVars, perfVars>>

\* VoiceActivityDetector::set_sensitivity(sensitivity)
SetSensitivity(sensitivity) ==
    /\ vad_cfg < MaxVadConfig
    /\ energy_threshold' = Max(0, Min(sensitivity, Unit))
    /\ vad_op' = "set_sensitivity"
    /\ vad_arg' = sensitivity
    /\ vad_ret' = "Ok"
    /\ vad_cfg' = vad_cfg + 1
    /\ UNCHANGED <<min_speech_frames, min_silence_frames, noise_alpha, energy_window,
                   speech_history, is_speech, noise_level, total_frames, speech_frames,
                   last_raw, last_returned, ever_above, qual_run, qual_from_silent, low_run, low_from_speech,
                   vad_fed>>
    /\ UNCHANGED <<bufVars, capVars, perfVars>>

\* a reset that keeps the adapted noise estimate
Reset_KeepNoise ==
    /\ vad_cfg < MaxVadConfig
    /\ energy_window' = <<>>
    /\ speech_history' = <<>>
    /\ is_speech' = FALSE
    /\ total_frames' = 0
    /\ speech_frames' = 0
    /\ vad_op' = "reset"
    /\ vad_arg' = 0
    /\ vad_ret' = "Ok"
    /\ qual_run' = 0
    /\ low_run' = 0
    /\ vad_cfg' = vad_cfg + 1
    /\ UNCHANGED <<energy_threshold, min_speech_frames, min_silence_frames, noise_alpha,
                   noise_level, last_raw, last_returned, ever_above, qual_from_silent,
                   low_from_speech, vad_fed>>
    /\ UNCHANGED <<bufVars, capVars, perfVars>>

\* VoiceActivityDetector::reset()
Reset ==
    /\ vad_cfg < MaxVadConfig
    /\ energy_window' = <<>>
    /\ speech_history' = <<>>
    /\ is_speech' = FALSE
    /\ noise_level' = InitialNoiseLevel
    /\ total_frames' = 0
    /\ speech_frames' = 0
    /\ vad_op' = "reset"
    /\ vad_arg' = 0
    /\ vad_ret' = "Ok"
    /\ qual_run' = 0
    /\ low_run' = 0
    /\ vad_cfg' = vad_cfg + 1
    /\ UNCHANGED <<energy_threshold, min_speech_frames, min_silence_frames, noise_alpha,
                   last_raw, last_returned, ever_above, qual_from_silent, low_from_speech, vad_fed>>
    /\ UNCHANGED <<bufVars, capVars, perfVars>>

\* the presets of VADEnvironment
Environments == {"Quiet", "Normal", "Noisy"}

\* the bundle configure_for_environment applies (noise_alpha in twentieths)
EnvPreset(environment) ==
    CASE environment = "Quiet" ->
            [energy_threshold |-> (3 * Unit) \div 10, min_speech_frames |-> 1,
             min_silence_frames |-> 2, noise_alpha |-> 1]
      [] environment = "Normal" ->
            [energy_threshold |-> (5 * Unit) \div 10, min_speech_frames |-> 2,
             min_silence_frames |-> 3, noise_alpha |-> 2]
      [] environment = "Noisy" ->
            [energy_threshold |-> (7 * Unit) \div 10, min_speech_frames |-> 3,
             min_silence_frames |-> 4, noise_alpha |-> 4]

\* a preset application that also drops the detector back to silent
ConfigureForEnvironment_Resetting(environment) ==
    /\ vad_cfg < MaxVadConfig
    /\ energy_threshold' = EnvPreset(environment).energy_threshold
    /\ min_speech_frames' = EnvPreset(environment).min_speech_frames
    /\ min_silence_frames' = EnvPreset(environment).min_silence_frames
    /\ noise_alpha' = EnvPreset(environment).noise_alpha
    /\ is_speech' = FALSE
    /\ vad_op' = "configure_for_environment"
    /\ vad_arg' = environment
    /\ vad_ret' = "Ok"
    /\ vad_cfg' = vad_cfg + 1
    /\ UNCHANGED <<energy_window, speech_history, noise_level, total_frames,
                   speech_frames, last_raw, last_returned, ever_above, qual_run, qual_from_silent, low_run,
                   low_from_speech, vad_fed>>
    /\ UNCHANGED <<bufVars, capVars, perfVars>>

\* VoiceActivityDetector::configure_for_environment(environment)
ConfigureForEnvironment(environment) ==
    /\ vad_cfg < MaxVadConfig
    /\ energy_threshold' = EnvPreset(environment).energy_threshold
    /\ min_speech_frames' = EnvPreset(environment).min_speech_frames
    /\ min_silence_frames' = EnvPreset(environment).min_silence_frames
    /\ noise_alpha' = EnvPreset(environment).noise_alpha
    /\ vad_op' = "configure_for_environment"
    /\ vad_arg' = environment
    /\ vad_ret' = "Ok"
    /\ vad_cfg' = vad_cfg + 1
    /\ UNCHANGED <<energy_window, speech_history, is_speech, noise_level, total_frames,
                   speech_frames, last_raw, last_returned, ever_above, qual_run, qual_from_silent, low_run,
                   low_from_speech, vad_fed>>
    /\ UNCHANGED <<bufVars, capVars, perfVars>>

\* statistics that do not carry the speech state
GetStats_NoState ==
    /\ vad_op' = "get_stats"
    /\ vad_arg' = 0
    /\ vad_ret' = [total_frames |-> total_frames,
                   speech_frames |-> speech_frames,
                   speech_ratio |-> IF total_frames > 0
                                    THEN (speech_frames * Unit) \div total_frames
                                    ELSE 0,
                   current_noise_level |-> noise_level,
                   current_threshold |-> energy_threshold,
                   is_speech |-> FALSE]
    /\ UNCHANGED <<energy_threshold, min_speech_frames, min_silence_frames, noise_alpha,
                   energy_window, speech_history, is_speech, noise_level, total_frames,
                   speech_frames, last_raw, last_returned, ever_above, qual_run,
                   qual_from_silent, low_run, low_from_speech, vad_fed, vad_cfg>>
    /\ UNCHANGED <<bufVars, capVars, perfVars>>

\* VoiceActivityDetector::get_stats()
GetStats ==
    /\ vad_op' = "get_stats"
    /\ vad_arg' = 0
    /\ vad_ret' = [total_frames |-> total_frames,
                   speech_frames |-> speech_frames,
                   speech_ratio |-> IF total_frames > 0
                                    THEN (speech_frames * Unit) \div total_frames
                                    ELSE 0,
                   current_noise_level |-> noise_level,
                   current_threshold |-> energy_threshold,
                   is_speech |-> is_speech]
    /\ UNCHANGED <<energy_threshold, min_speech_frames, min_silence_frames, noise_alpha,
                   energy_window, speech_history, is_speech, noise_level, total_frames,
                   speech_frames, last_raw, last_returned, ever_above, qual_run, qual_from_silent, low_run,
                   low_from_speech, vad_fed, vad_cfg>>
    /\ UNCHANGED <<bufVars, capVars, perfVars>>


(* --------------------------- AudioCapture ------------------------------ *)

\* the listeners an owner registers
Listeners == {1, 2}
\* the stream self.stream holds and the one start_capture is building
StreamSlots == {1, 2}
\* the sample blocks the device hands to the callback: silent and loud
CapFrames == {<<0>>, <<Unit>>}
\* the errors start_capture returns
StartErrors == {"NoInputDevice", "DeviceNotFound", "UnsupportedFormat", "StreamError"}

\* AudioFrame { data, energy_level: 0.0, is_speech: false } before the callback fills it
NoFrame ==
    [data |-> <<>>, timestamp |-> 0, energy_level |-> 0, is_speech |-> FALSE,
     classified |-> FALSE]

\* the capture before AudioCapture::new is called
CaptureUnbuilt ==
    /\ cap_built = "unbuilt"
    /\ cap_state = "Stopped"
    /\ stream = 0
    /\ is_recording = FALSE
    /\ should_stop = FALSE
    /\ frames_processed = 0
    /\ frames_dropped = 0
    /\ level_callback = 0
    /\ speech_callback = 0
    /\ stats = [current_level |-> 0, peak_level |-> 0, frames_processed |-> 0,
                frames_dropped |-> 0, processing_latency_ms |-> 0]
    /\ vad_lock = 0
    /\ stats_lock = "free"
    /\ streams = [s \in StreamSlots |->
                    [live |-> FALSE, level_callback |-> 0, speech_callback |-> 0]]
    /\ cb_pc = [s \in StreamSlots |-> "idle"]
    /\ cb_frame = [s \in StreamSlots |-> NoFrame]
    /\ notes = [s \in StreamSlots |-> <<>>]
    /\ main_pc = "idle"
    /\ cap_op = "none"
    /\ cap_arg = 0
    /\ cap_ret = "none"
    /\ cap_fed = 0
    /\ fed_at_stop = 0
    /\ cap_calls = 0

\* AudioCapture::new(config): the buffer is built from config.sample_rate and
\* config.buffer_duration, and its error is passed on
CaptureNew ==
    /\ cap_built = "unbuilt"
    /\ BufferNew
    /\ cap_built' = buf_state'
    /\ cap_op' = "new"
    /\ cap_arg' = window
    /\ cap_ret' = IF buf_state' = "ok" THEN "Ok" ELSE "Err"
    /\ UNCHANGED <<cap_state, stream, is_recording, should_stop, frames_processed,
                   frames_dropped, level_callback, speech_callback, stats, vad_lock, stats_lock,
                   streams, cb_pc, cb_frame, notes, main_pc, cap_fed, fed_at_stop, cap_calls>>
    /\ UNCHANGED <<vadVars, perfVars>>

\* start_capture up to *self.state.lock().unwrap() = CaptureState::Starting
StartCaptureBegin ==
    /\ cap_built = "ok"
    /\ main_pc = "idle"
    /\ cap_calls < MaxCapCalls
    /\ cap_state' = "Starting"
    /\ main_pc' = "starting"
    /\ cap_op' = "start_capture"
    /\ cap_arg' = 0
    /\ cap_ret' = "pending"
    /\ cap_calls' = cap_calls + 1
    /\ UNCHANGED <<cap_built, stream, is_recording, should_stop, frames_processed,
                   frames_dropped, level_callback, speech_callback, stats, vad_lock, stats_lock,
                   streams, cb_pc, cb_frame, notes, cap_fed, fed_at_stop>>
    /\ UNCHANGED <<bufVars, vadVars, perfVars>>

\* one of the ? exits of start_capture: device lookup, format negotiation,
\* stream build or play failed
StartCaptureFail(error) ==
    /\ main_pc = "starting"
    /\ main_pc' = "idle"
    /\ cap_ret' = error
    /\ UNCHANGED <<cap_built, cap_state, stream, is_recording, should_stop,
                   frames_processed, frames_dropped, level_callback, speech_callback,
                   stats, vad_lock, stats_lock, streams, cb_pc, cb_frame, notes, cap_op, cap_arg,
                   cap_fed, fed_at_stop, cap_calls>>
    /\ UNCHANGED <<bufVars, vadVars, perfVars>>

\* the slot of the stream create_audio_stream builds: not the one self.stream holds
NewSlot == IF stream = 1 THEN 2 ELSE 1

\* the stream create_audio_stream builds: its closure holds clones of the two
\* listener slots as they are when it is built
CreateAudioStream ==
    [live |-> TRUE, level_callback |-> level_callback, speech_callback |-> speech_callback]

\* start_capture from create_audio_stream to stream.play(): the new stream
\* delivers callbacks from here on
StartCapturePlay ==
    /\ main_pc = "starting"
    /\ cb_pc[NewSlot] = "idle"
    /\ streams' = [streams EXCEPT ![NewSlot] = CreateAudioStream]
    /\ main_pc' = "played"
    /\ UNCHANGED <<cap_built, cap_state, stream, is_recording, should_stop,
                   frames_processed, frames_dropped, level_callback, speech_callback,
                   stats, vad_lock, stats_lock, cb_pc, cb_frame, notes, cap_op, cap_arg, cap_ret,
                   cap_fed, fed_at_stop, cap_calls>>
    /\ UNCHANGED <<bufVars, vadVars, perfVars>>

\* the streams once the stream in slot s is dropped (0: nothing to drop)
Dropped(s) ==
    IF s = 0 THEN streams ELSE [streams EXCEPT ![s].live = FALSE]

\* dropping a stream waits for the invocation of its callback that is under way
CanDrop(s) == IF s = 0 THEN TRUE ELSE cb_pc[s] = "idle"

\* the end of start_capture: self.stream = Some(stream), which drops the stream
\* held before, is_recording, state = Recording, Ok(())
StartCaptureInstall ==
    /\ main_pc = "played"
    /\ CanDrop(stream)
    /\ streams' = Dropped(stream)
    /\ stream' = NewSlot
    /\ is_recording' = TRUE
    /\ cap_state' = "Recording"
    /\ main_pc' = "idle"
    /\ cap_ret' = "Ok"
    /\ UNCHANGED <<cap_built, should_stop, frames_processed, frames_dropped,
                   level_callback, speech_callback, stats, vad_lock, stats_lock, cb_pc, cb_frame,
                   notes, cap_op, cap_arg, cap_fed, fed_at_stop, cap_calls>>
    /\ UNCHANGED <<bufVars, vadVars, perfVars>>

\* a stop that sets the flags and the state but keeps the stream, as Drop does
StopCapture_FlagsOnly ==
    /\ cap_built = "ok"
    /\ main_pc = "idle"
    /\ cap_calls < MaxCapCalls
    /\ should_stop' = TRUE
    /\ is_recording' = FALSE
    /\ cap_state' = "Stopped"
    /\ cap_op' = "stop_capture"
    /\ cap_arg' = 0
    /\ cap_ret' = "Ok"
    /\ cap_calls' = cap_calls + 1
    /\ fed_at_stop' = cap_fed
    /\ UNCHANGED <<cap_built, stream, streams, frames_processed, frames_dropped,
                   level_callback, speech_callback, stats, vad_lock, stats_lock, cb_pc,
                   cb_frame, notes, main_pc, cap_fed>>
    /\ UNCHANGED <<bufVars, vadVars, perfVars>>

\* a stop that also empties the ring buffer
StopCapture_Clearing ==
    /\ cap_built = "ok"
    /\ main_pc = "idle"
    /\ cap_calls < MaxCapCalls
    /\ CanDrop(stream)
    /\ should_stop' = TRUE
    /\ is_recording' = FALSE
    /\ streams' = Dropped(stream)
    /\ stream' = 0
    /\ cap_state' = "Stopped"
    /\ cap_op' = "stop_capture"
    /\ cap_arg' = 0
    /\ cap_ret' = "Ok"
    /\ cap_calls' = cap_calls + 1
    /\ fed_at_stop' = cap_fed
    /\ data' = [i \in 0..(capacity - 1) |-> 0]
    /\ write_pos' = 0
    /\ size' = 0
    /\ is_full' = FALSE
    /\ written' = <<>>
    /\ UNCHANGED <<cap_built, frames_processed, frames_dropped, level_callback,
                   speech_callback, stats, vad_lock, stats_lock, cb_pc, cb_frame, notes, main_pc,
                   cap_fed>>
    /\ UNCHANGED <<buf_state, sample_rate, window, capacity, read_pos, poisoned, data_lock, rd_pc,
                   rd_needed, rd_seen, op, arg, ret, offered, cleared>>
    /\ UNCHANGED <<vadVars, perfVars>>

\* AudioCapture::stop_capture()
StopCapture ==
    /\ cap_built = "ok"
    /\ main_pc = "idle"
    /\ cap_calls < MaxCapCalls
    /\ CanDrop(stream)
    /\ should_stop' = TRUE
    /\ is_recording' = FALSE
    /\ streams' = Dropped(stream)
    /\ stream' = 0
    /\ cap_state' = "Stopped"
    /\ cap_op' = "stop_capture"
    /\ cap_arg' = 0
    /\ cap_ret' = "Ok"
    /\ cap_calls' = cap_calls + 1
    /\ fed_at_stop' = cap_fed
    /\ UNCHANGED <<cap_built, frames_processed, frames_dropped, level_callback,
                   speech_callback, stats, vad_lock, stats_lock, cb_pc, cb_frame, notes, main_pc,
                   cap_fed>>
    /\ UNCHANGED <<bufVars, vadVars, perfVars>>

\* AudioCapture::get_stats() up to self.stats.lock(): the owner waits for the
\* statistics and holds them while it clones the record
CaptureGetStatsLock ==
    /\ cap_built = "ok"
    /\ main_pc = "idle"
    /\ cap_calls < MaxCapCalls
    /\ stats_lock = "free"
    /\ stats_lock' = "owner"
    /\ main_pc' = "stats"
    /\ cap_op' = "get_stats"
    /\ cap_arg' = 0
    /\ cap_ret' = "locked"
    /\ cap_calls' = cap_calls + 1
    /\ UNCHANGED <<cap_built, cap_state, stream, is_recording, should_stop,
                   frames_processed, frames_dropped, level_callback, speech_callback,
                   stats, vad_lock, streams, cb_pc, cb_frame, notes, cap_fed, fed_at_stop>>
    /\ UNCHANGED <<bufVars, vadVars, perfVars>>

\* the rest of get_stats: the clone is returned and the guard is dropped
CaptureGetStatsReturn ==
    /\ main_pc = "stats"
    /\ stats_lock' = "free"
    /\ main_pc' = "idle"
    /\ cap_ret' = stats
    /\ UNCHANGED <<cap_built, cap_state, stream, is_recording, should_stop,
                   frames_processed, frames_dropped, level_callback, speech_callback,
                   stats, vad_lock, streams, cb_pc, cb_frame, notes, cap_op, cap_arg,
                   cap_fed, fed_at_stop, cap_calls>>
    /\ UNCHANGED <<bufVars, vadVars, perfVars>>

\* AudioCapture::set_level_callback(callback)
SetLevelCallback(callback) ==
    /\ cap_built = "ok"
    /\ main_pc = "idle"
    /\ cap_calls < MaxCapCalls
    /\ level_callback' = callback
    /\ cap_op' = "set_level_callback"
    /\ cap_arg' = callback
    /\ cap_ret' = "Ok"
    /\ cap_calls' = cap_calls + 1
    /\ UNCHANGED <<cap_built, cap_state, stream, is_recording, should_stop,
                   frames_processed, frames_dropped, speech_callback, stats, vad_lock, stats_lock,
                   streams, cb_pc, cb_frame, notes, main_pc, cap_fed, fed_at_stop>>
    /\ UNCHANGED <<bufVars, vadVars, perfVars>>

\* AudioCapture::set_speech_callback(callback)
SetSpeechCallback(callback) ==
    /\ cap_built = "ok"
    /\ main_pc = "idle"
    /\ cap_calls < MaxCapCalls
    /\ speech_callback' = callback
    /\ cap_op' = "set_speech_callback"
    /\ cap_arg' = callback
    /\ cap_ret' = "Ok"
    /\ cap_calls' = cap_calls + 1
    /\ UNCHANGED <<cap_built, cap_state, stream, is_recording, should_stop,
                   frames_processed, frames_dropped, level_callback, stats, vad_lock, stats_lock,
                   streams, cb_pc, cb_frame, notes, main_pc, cap_fed, fed_at_stop>>
    /\ UNCHANGED <<bufVars, vadVars, perfVars>>

\* a try_lock that takes the detector even while another callback holds it
TryLockVad_Steal(lock) == TRUE

\* vad.try_lock(): Ok exactly when no one holds the detector
TryLockVad(lock) == lock = 0

\* the call a listener receives: which listener, with what value, and whether
\* the frame was already written to the buffer and counted in the statistics
Note(kind, to, value, stored) ==
    [kind |-> kind, to |-> to, value |-> value, stored |-> stored]

\* process_audio_data from the frame's construction to the speech listener: the
\* detector is classified under try_lock, and the lock is still held afterwards
ProcessAudioDataClassify(s, frame_data) ==
    /\ streams[s].live
    /\ cb_pc[s] = "idle"
    /\ cap_fed < MaxCapFrames
    /\ cap_fed' = cap_fed + 1
    /\ IF TryLockVad(vad_lock)
       THEN /\ DetectorProcessFrame(frame_data)
            /\ vad_lock' = s
            /\ cb_frame' = [cb_frame EXCEPT ![s] =
                                [data |-> frame_data,
                                 timestamp |-> cap_fed + 1,
                                 energy_level |-> CalculateRmsEnergy(frame_data),
                                 is_speech |-> vad_ret'.is_speech,
                                 classified |-> TRUE]]
            /\ notes' = [notes EXCEPT ![s] =
                            IF streams[s].speech_callback # 0
                            THEN <<Note("speech", streams[s].speech_callback,
                                        vad_ret'.is_speech, FALSE)>>
                            ELSE <<>>]
            /\ cb_pc' = [cb_pc EXCEPT ![s] = "locked"]
       ELSE /\ UNCHANGED <<vadVars, vad_lock>>
            /\ cb_frame' = [cb_frame EXCEPT ![s] =
                                [data |-> frame_data,
                                 timestamp |-> cap_fed + 1,
                                 energy_level |-> CalculateRmsEnergy(frame_data),
                                 is_speech |-> FALSE,
                                 classified |-> FALSE]]
            /\ notes' = [notes EXCEPT ![s] = <<>>]
            /\ cb_pc' = [cb_pc EXCEPT ![s] = "skipped"]
    /\ UNCHANGED <<cap_built, cap_state, stream, is_recording, should_stop,
                   frames_processed, frames_dropped, level_callback, speech_callback,
                   stats, stats_lock, streams, main_pc, cap_op, cap_arg, cap_ret,
                   fed_at_stop, cap_calls>>
    /\ UNCHANGED <<bufVars, perfVars>>

\* a callback that updates the statistics whoever holds them
TryLockStats_Always(lock) == TRUE

\* stats.try_lock(): Ok exactly when no one holds the statistics
TryLockStats(lock) == lock = "free"

\* an update whose peak follows the current level down
UpdatedStats_PeakFollows(st, energy, processed, invocation) ==
    [st EXCEPT !.current_level = energy,
               !.peak_level = energy,
               !.frames_processed = processed + 1,
               !.processing_latency_ms = invocation]

\* the statistics after the callback's update for a frame of this energy; the
\* elapsed time is not modelled, the latency field takes the number of the
\* invocation that measured it
UpdatedStats(st, energy, processed, invocation) ==
    [st EXCEPT !.current_level = energy,
               !.peak_level = IF energy > st.peak_level THEN energy ELSE st.peak_level,
               !.frames_processed = processed + 1,
               !.processing_latency_ms = invocation]

\* the rest of process_audio_data: the detector guard goes out of scope, the
\* frame is written to the buffer, the statistics are updated and the level
\* listener is called
ProcessAudioDataFinish(s) ==
    /\ cb_pc[s] # "idle"
    /\ vad_lock' = IF cb_pc[s] = "locked" THEN 0 ELSE vad_lock
    /\ BufferWriteFrame(cb_frame[s].data)
    /\ frames_dropped' = IF WriteFails(cb_frame[s].data) THEN frames_dropped + 1
                         ELSE frames_dropped
    /\ IF TryLockStats(stats_lock)
       THEN /\ stats' = UpdatedStats(stats, cb_frame[s].energy_level, frames_processed,
                                     cb_frame[s].timestamp)
            /\ frames_processed' = frames_processed + 1
       ELSE UNCHANGED <<stats, frames_processed>>
    /\ notes' = [notes EXCEPT ![s] =
                    IF streams[s].level_callback # 0
                    THEN Append(notes[s], Note("level", streams[s].level_callback,
                                               cb_frame[s].energy_level, TRUE))
                    ELSE notes[s]]
    /\ cb_pc' = [cb_pc EXCEPT ![s] = "idle"]
    /\ UNCHANGED <<cap_built, cap_state, stream, is_recording, should_stop,
                   level_callback, speech_callback, stats_lock, streams, cb_frame,
                   main_pc, cap_op, cap_arg, cap_ret, cap_fed, fed_at_stop, cap_calls>>
    /\ UNCHANGED <<vadVars, perfVars>>

\* the durations get_recent_audio is asked for
CapDurations == {TicksPerSecond, MaxDurationTicks}

\* AudioCapture::get_recent_audio(duration): self.buffer.read_recent(duration)
GetRecentAudio(ticks) ==
    /\ cap_built = "ok"
    /\ main_pc = "idle"
    /\ ReadRecent(ticks)

\* AudioCapture::is_recording(): self.is_recording.load(..)
IsRecording == is_recording

\* AudioCapture::get_state(): *self.state.lock().unwrap()
GetState == cap_state

(* ------------------------ PerformanceMonitor --------------------------- *)

\* the components record_*_latency exist for
Components == {"audio", "vad", "stt", "ai", "system"}
\* the measurements handed in, in milliseconds
Latencies == {1, 2}

\* PerformanceMonitor::new(window_size)
MonitorNew(entries) ==
    /\ window_size = entries
    /\ latencies = [c \in Components |-> <<>>]
    /\ recorded = [c \in Components |-> <<>>]

\* a queue that refuses the new measurement once it is full
Recorded_KeepOldest(queue, latency, limit) ==
    IF Len(queue) >= limit THEN queue ELSE Append(queue, latency)

\* queue.push_back(latency); if queue.len() > self.window_size { queue.pop_front(); }
Recorded(queue, latency, limit) ==
    LET pushed == Append(queue, latency) IN
    IF Len(pushed) > limit THEN Tail(pushed) ELSE pushed

\* how many measurements were recorded in all
MonitorCalls ==
    Len(recorded["audio"]) + Len(recorded["vad"]) + Len(recorded["stt"])
        + Len(recorded["ai"]) + Len(recorded["system"])

\* PerformanceMonitor::record_<component>_latency(latency), through record_latency
RecordLatency(component, latency) ==
    /\ MonitorCalls < MaxMonitorCalls
    /\ latencies' = [latencies EXCEPT
                        ![component] = Recorded(latencies[component], latency, window_size)]
    /\ recorded' = [recorded EXCEPT ![component] = Append(recorded[component], latency)]
    /\ UNCHANGED window_size
    /\ UNCHANGED <<bufVars, vadVars, capVars>>

(* ------------------------- specifications ------------------------------ *)

InitBuffer ==
    /\ \E rate \in 1..MaxSampleRate, ticks \in 0..MaxWindowTicks : BufferUnbuilt(rate, ticks)
    /\ VadNew(Unit \div 2)
    /\ CaptureUnbuilt
    /\ MonitorNew(0)

NextBuffer ==
    \/ New
    \/ \E frame \in BufferFrames : WriteFrame(frame)
    \/ \E ticks \in 0..MaxDurationTicks : ReadRecent(ticks)
    \/ Clear
    \/ \E ticks \in 0..MaxDurationTicks : HasSufficientData(ticks)

SpecBuffer == InitBuffer /\ [][NextBuffer]_vars

InitVad ==
    /\ BufferUnbuilt(1, 0)
    /\ \E threshold \in VadThresholds : VadNew(threshold)
    /\ CaptureUnbuilt
    /\ MonitorNew(0)

NextVad ==
    \/ \E audio_data \in VadFrames : ProcessFrame(audio_data)
    \/ \E sensitivity \in VadSensitivities : SetSensitivity(sensitivity)
    \/ Reset

SpecVad == InitVad /\ [][NextVad]_vars

\* the frames handed to a reconfigurable detector: empty, silent and loud
EnvFrames == {<<>>, <<0, 0>>, <<0 - Unit, Unit>>}

InitVadEnv ==
    /\ BufferUnbuilt(1, 0)
    /\ VadNew(Unit \div 2)
    /\ CaptureUnbuilt
    /\ MonitorNew(0)

NextVadEnv ==
    \/ \E audio_data \in EnvFrames : ProcessFrame(audio_data)
    \/ \E environment \in Environments : ConfigureForEnvironment(environment)
    \/ GetStats
    \/ \E sensitivity \in VadSensitivities : SetSensitivity(sensitivity)
    \/ Reset

SpecVadEnv == InitVadEnv /\ [][NextVadEnv]_vars

\* AudioCapture::new(config) with the window of config.buffer_duration either
\* empty or one second, and config.vad_threshold = 0.5
InitCapture ==
    /\ \E ticks \in {0, TicksPerSecond} : BufferUnbuilt(MaxSampleRate, ticks)
    /\ VadNew(Unit \div 2)
    /\ CaptureUnbuilt
    /\ MonitorNew(0)

NextCapture ==
    \/ CaptureNew
    \/ StartCaptureBegin
    \/ \E error \in StartErrors : StartCaptureFail(error)
    \/ StartCapturePlay
    \/ StartCaptureInstall
    \/ StopCapture
    \/ CaptureGetStatsLock
    \/ CaptureGetStatsReturn
    \/ \E callback \in Listeners : SetLevelCallback(callback)
    \/ \E callback \in Listeners : SetSpeechCallback(callback)
    \/ \E s \in StreamSlots, frame_data \in CapFrames : ProcessAudioDataClassify(s, frame_data)
    \/ \E s \in StreamSlots : ProcessAudioDataFinish(s)

SpecCapture == InitCapture /\ [][NextCapture]_vars

\* the capture next to a thread that panics while it holds the buffer's data
NextCaptureFaults ==
    \/ NextCapture
    \/ PoisonData

SpecCaptureFaults == InitCapture /\ [][NextCaptureFaults]_vars

\* the capture stopped, restarted and read: no listeners, no statistics query
NextRestart ==
    \/ CaptureNew
    \/ StartCaptureBegin
    \/ \E error \in StartErrors : StartCaptureFail(error)
    \/ StartCapturePlay
    \/ StartCaptureInstall
    \/ StopCapture
    \/ \E ticks \in CapDurations : GetRecentAudio(ticks)
    \/ \E s \in StreamSlots, frame_data \in CapFrames : ProcessAudioDataClassify(s, frame_data)
    \/ \E s \in StreamSlots : ProcessAudioDataFinish(s)

SpecRestart == InitCapture /\ [][NextRestart]_vars

\* the capture next to a reader and a clear() that hold the lock on data, and
\* to a get_stats that holds the statistics
NextCaptureLive ==
    \/ CaptureNew
    \/ StartCaptureBegin
    \/ StartCapturePlay
    \/ StartCaptureInstall
    \/ StopCapture
    \/ CaptureGetStatsLock
    \/ CaptureGetStatsReturn
    \/ \E s \in StreamSlots : ProcessAudioDataClassify(s, <<Unit>>)
    \/ \E s \in StreamSlots : ProcessAudioDataFinish(s)
    \/ ReadRecentLoad(MaxDurationTicks)
    \/ ReadRecentAcquire
    \/ ReadRecentRelease
    \/ ClearAcquire
    \/ ClearRelease

\* scheduling: a thread that holds the lock on data runs on and releases it; a
\* thread that waits for that lock gets it when it is free again and again; the
\* owner may stay inside get_stats for ever
SpecCaptureLive ==
    /\ InitCapture
    /\ [][NextCaptureLive]_vars
    /\ \A s \in StreamSlots : SF_cb_pc(ProcessAudioDataFinish(s))
    /\ SF_rd_pc(ReadRecentAcquire)
    /\ WF_rd_pc(ReadRecentRelease)
    /\ WF_data_lock(ClearRelease)

\* the frames written and the durations read while a read_recent is under way
ConcFrames == {<<1>>, <<2, 3>>}
ConcDurations == {1, MaxDurationTicks}

InitBufferConc ==
    /\ BufferUnbuilt(MaxSampleRate, MaxWindowTicks)
    /\ VadNew(Unit \div 2)
    /\ CaptureUnbuilt
    /\ MonitorNew(0)

NextBufferConc ==
    \/ New
    \/ \E frame \in ConcFrames : WriteFrame(frame)
    \/ Clear
    \/ \E ticks \in ConcDurations : ReadRecentLoad(ticks)
    \/ ReadRecentCopy

SpecBufferConc == InitBufferConc /\ [][NextBufferConc]_vars

\* the end-to-end scenario: five frames of amplitude 1.0, then five of 0.0
ScenarioAmplitudes == <<Unit, Unit, Unit, Unit, Unit, 0, 0, 0, 0, 0>>
\* the frames that carry sound
LoudFrames == Cardinality({k \in DOMAIN ScenarioAmplitudes : ScenarioAmplitudes[k] # 0})
\* samples per 10 ms frame (160 at 16 kHz, scaled down)
ScenarioFrameLens == {1, 2}
\* 100 frames of 10 ms make the one-second window (16000 = 100 * 160)
ScenarioRate(len) == 100 * len
\* min_silence_frames as the scenario states it, and as new sets it
ScenarioMinSilence == {2, DefaultMinSilenceFrames}

\* the k-th frame of the scenario, for the sample rate of the buffer
ScenarioFrame(k) ==
    [i \in 1..(sample_rate \div 100) |-> ScenarioAmplitudes[k]]

\* the samples of the first k frames of the scenario, in order
ScenarioSamples(k) ==
    [i \in 1..(k * (sample_rate \div 100)) |->
        ScenarioAmplitudes[((i - 1) \div (sample_rate \div 100)) + 1]]

\* one frame through the pipeline of the callback: classified by the
\* detector, then written to the buffer
ScenarioFeed ==
    /\ buf_state = "ok"
    /\ vad_fed < Len(ScenarioAmplitudes)
    /\ DetectorProcessFrame(ScenarioFrame(vad_fed + 1))
    /\ BufferWriteFrame(ScenarioFrame(vad_fed + 1))
    /\ UNCHANGED <<capVars, perfVars>>

InitScenario ==
    /\ \E len \in ScenarioFrameLens : BufferUnbuilt(ScenarioRate(len), TicksPerSecond)
    /\ \E min_silence \in ScenarioMinSilence :
            VadFresh(Unit \div 2, DefaultMinSpeechFrames, min_silence)
    /\ CaptureUnbuilt
    /\ MonitorNew(0)

NextScenario ==
    \/ New
    \/ ScenarioFeed
    \/ \E ticks \in 0..MaxDurationTicks : ReadRecent(ticks)

SpecScenario == InitScenario /\ [][NextScenario]_vars

(* ----------------------- CircularBuffer: properties -------------------- *)

\* C1: once more than capacity samples have been handed to write_frame (no
\* clear in between), a read_recent over the full window returns exactly the
\* last `capacity` samples written, in their original order.
C1_WrapCorrectness ==
    (op = "read_recent" /\ offered > capacity /\ SamplesIn(sample_rate, arg) >= capacity)
        => (Len(ret) = capacity /\ ret = written)

\* a full-window read of a wrapped buffer whose cursor is inside the store
C1_Witness ==
    /\ op = "read_recent"
    /\ offered > capacity
    /\ SamplesIn(sample_rate, arg) >= capacity
    /\ capacity >= 3
    /\ write_pos > 0
    /\ ret[1] # ret[2]
    /\ ret[2] # ret[3]

\* C2: read_recent(d) returns the n = min(floor(sample_rate*d), count) most
\* recently stored samples, oldest first, also across the wrap boundary.
C2_ReadWindowing ==
    op = "read_recent" =>
        LET n == Min((sample_rate * arg) \div TicksPerSecond, size) IN
        /\ Len(written) >= n
        /\ ret = LastN(written, n)

\* a partial read whose samples straddle the end of the backing store
C2_Witness ==
    /\ op = "read_recent"
    /\ Len(ret) >= 2
    /\ Len(ret) < capacity
    /\ write_pos > 0
    /\ write_pos < Len(ret)
    /\ ret[1] # ret[Len(ret)]

\* C3: read_recent(d) returns exactly min(floor(sample_rate*d), count)
\* samples: never more than are stored, and none when count is 0 or the
\* duration truncates to 0 samples.
C3_ReadLength ==
    op = "read_recent" =>
        /\ Len(ret) = Min((sample_rate * arg) \div TicksPerSecond, size)
        /\ Len(ret) <= size
        /\ (size = 0 \/ (sample_rate * arg) \div TicksPerSecond = 0) => ret = <<>>

\* a read of a partly filled buffer that asks for more than is stored
C3_Witness ==
    /\ op = "read_recent"
    /\ size > 0
    /\ (sample_rate * arg) \div TicksPerSecond > size
    /\ Len(ret) = size
    /\ read_pos = 0
    /\ ~is_full

\* C4: the count never exceeds capacity, and once the buffer is full every
\* later write_frame leaves the count at capacity and the full flag set.
C4_CountBounded ==
    /\ [](buf_state = "ok" => size <= capacity)
    /\ [][(is_full /\ op' = "write_frame") => (is_full' /\ size' = capacity)]_vars

\* a one-sample write into a buffer that was already full
C4_Witness ==
    /\ op = "write_frame"
    /\ capacity >= 2
    /\ Len(arg) = 1
    /\ offered = capacity + 1
    /\ is_full
    /\ size = capacity

\* C5: after clear(), read_recent(d) is empty for every d and
\* has_sufficient_data(d) is false for every positive d; a second clear()
\* changes nothing.
C5_ClearEmpties ==
    /\ [](cleared =>
            /\ (op = "read_recent" => ret = <<>>)
            /\ ((op = "has_sufficient_data" /\ arg > 0) => ret = FALSE))
    /\ [][(cleared /\ op' = "clear")
            => UNCHANGED <<data, write_pos, read_pos, size, is_full>>]_vars

\* C6: write_frame with a frame of length L stores min(L, capacity) samples,
\* returns that number and advances the cursor by it modulo capacity; of a
\* longer frame the first `capacity` samples are stored, the rest dropped.
C6_WriteStoresPrefix ==
    [][(op' = "write_frame" /\ arg' # <<>>) =>
        LET L == Len(arg')
            n == IF L <= capacity THEN L ELSE capacity
        IN /\ ret' = n
           /\ write_pos' = (write_pos + n) % capacity
           /\ \A i \in 0..(n - 1) : data'[(write_pos + i) % capacity] = arg'[i + 1]
           /\ DOMAIN data' = 0..(capacity - 1)
           /\ n < capacity =>
                \A j \in 0..(capacity - 1) :
                    (\A i \in 0..(n - 1) : j # (write_pos + i) % capacity)
                        => data'[j] = data[j]
    ]_vars

\* an oversized frame written at a cursor inside the store
C6_Witness ==
    /\ op = "write_frame"
    /\ Len(arg) > capacity
    /\ ret = capacity
    /\ capacity >= 2
    /\ write_pos > 0
    /\ arg[1] # arg[capacity]

\* C7: new fails, and creates no buffer, exactly when sample_rate * window
\* truncates to zero samples; otherwise the buffer has capacity
\* floor(sample_rate * window), count 0, cursor 0 and full flag false.
C7_NewRejectsZero ==
    LET samples == (sample_rate * window) \div TicksPerSecond IN
    /\ buf_state # "unbuilt" => (buf_state = "err" <=> samples = 0)
    /\ buf_state = "err" => (capacity = 0 /\ data = <<>> /\ ret = "Err")
    /\ buf_state = "ok" => (capacity = samples /\ DOMAIN data = 0..(samples - 1))
    /\ (op = "new" /\ buf_state = "ok") =>
            /\ ret = "Ok"
            /\ size = 0
            /\ write_pos = 0
            /\ is_full = FALSE
            /\ \A i \in DOMAIN data : data[i] = 0

\* a positive window shorter than one sample period, rejected
C7_Witness ==
    /\ op = "new"
    /\ buf_state = "err"
    /\ window > 0

(* -------------------- VoiceActivityDetector: properties ---------------- *)

AllZero(frame) == Len(frame) > 0 /\ \A i \in DOMAIN frame : frame[i] = 0

\* the smoothing window holds no energy and the history no speech entry
NoTraceOfSound(energies, history) ==
    /\ \A i \in DOMAIN energies : energies[i] = 0
    /\ \A i \in DOMAIN history : history[i] = FALSE

\* C8 as claimed: process_frame on a non-empty all-zero frame returns
\* is_speech = false and confidence = 0 in every reachable detector state.
C8_SilenceAlways ==
    (vad_op = "process_frame" /\ AllZero(vad_arg))
        => (vad_ret.is_speech = FALSE /\ vad_ret.confidence = 0)

\* C8 as amended: process_frame on a non-empty all-zero frame returns
\* is_speech = false and confidence = 0, whatever the threshold, when the
\* detector is silent and neither its smoothing window nor its history holds
\* a trace of an earlier loud frame.
C8_SilenceWhenQuiet ==
    [][(/\ vad_op' = "process_frame"
        /\ AllZero(vad_arg')
        /\ ~is_speech
        /\ NoTraceOfSound(energy_window, speech_history))
       => (/\ vad_ret'.is_speech = FALSE
           /\ vad_ret'.confidence = 0
           /\ ~is_speech')]_vars

\* a third all-zero frame in a row, processed with the threshold at 0
C8_Witness ==
    /\ vad_op = "process_frame"
    /\ AllZero(vad_arg)
    /\ energy_threshold = 0
    /\ Len(energy_window) >= 3
    /\ NoTraceOfSound(energy_window, speech_history)
    /\ ~is_speech
    /\ vad_ret.confidence = 0

\* C9: with min_speech_frames = 2 and min_silence_frames = 3, two consecutive
\* qualifying frames fed to a silent detector put it in the speech state by
\* the second, and a single qualifying frame never does.
C9_HysteresisActivation ==
    (/\ vad_op = "process_frame"
     /\ min_speech_frames = 2
     /\ min_silence_frames = 3
     /\ qual_from_silent)
        => /\ qual_run = 2 => is_speech
           /\ qual_run = 1 => ~is_speech

\* C10: min_silence_frames consecutive low-energy frames fed to a detector in
\* the speech state return it to silent by the last of them, and fewer
\* never do.
C10_HysteresisRelease ==
    (/\ vad_op = "process_frame"
     /\ low_from_speech
     /\ low_run > 0)
        => /\ low_run = min_silence_frames => ~is_speech
           /\ low_run < min_silence_frames => is_speech

\* C12: process_frame changes the adaptive noise level only when the detector
\* is not classified as speech at the start of the call; every process_frame
\* call made while is_speech is true leaves the noise level unchanged.
C12_NoiseFrozenInSpeech ==
    [][(vad_op' = "process_frame" /\ noise_level' # noise_level) => ~is_speech]_vars

\* a silent frame, processed by a detector in the speech state whose noise
\* estimate an update would have lowered
C12_Witness ==
    /\ vad_op = "process_frame"
    /\ AllZero(vad_arg)
    /\ low_run = 1
    /\ low_from_speech
    /\ noise_level > InitialNoiseLevel

\* C13: the current speech boolean changes only as the outcome of the
\* hysteresis rule inside process_frame: set_sensitivity,
\* configure_for_environment, get_stats and process_frame on an empty frame
\* leave it unchanged, and reset forces it to silent.
C13_SpeechWriters ==
    [][/\ vad_op' \in {"set_sensitivity", "configure_for_environment", "get_stats"}
            => is_speech' = is_speech
       /\ (vad_op' = "process_frame" /\ Len(vad_arg') = 0) => is_speech' = is_speech
       /\ vad_op' = "reset" => ~is_speech'
       /\ (vad_op' = "process_frame" /\ Len(vad_arg') > 0)
            => is_speech' = DetermineSpeechState(speech_history', min_speech_frames,
                                                 min_silence_frames, is_speech)
      ]_vars

\* a preset applied to a detector in the speech state, which stays in it
C13_Witness ==
    /\ vad_op = "configure_for_environment"
    /\ vad_arg = "Quiet"
    /\ is_speech
    /\ min_speech_frames = 1

\* C14: every process_frame result with is_speech = false carries
\* confidence = 0, and the confidence always lies in [0, 1].
C14_ConfidenceOnlyWhenSpeech ==
    vad_op = "process_frame" =>
        /\ vad_ret.is_speech = FALSE => vad_ret.confidence = 0
        /\ vad_ret.confidence >= 0
        /\ vad_ret.confidence <= Unit

\* C15: while the history holds fewer than min_speech_frames entries,
\* process_frame keeps the current speech state whatever the frame's energy;
\* a freshly constructed or reset detector is silent with an empty history,
\* and stays silent for its first min_speech_frames - 1 frames.
C15_HoldWhileShort ==
    /\ [](vad_op \in {"new", "reset"}
            => (~is_speech /\ speech_history = <<>> /\ total_frames = 0))
    /\ [][(/\ vad_op' = "process_frame"
           /\ Len(vad_arg') > 0
           /\ Len(speech_history') < min_speech_frames)
          => (is_speech' = is_speech /\ vad_ret'.is_speech = is_speech)]_vars
    /\ [][(/\ vad_op' = "process_frame"
           /\ Len(vad_arg') > 0
           /\ ~is_speech
           /\ total_frames + 1 < min_speech_frames)
          => ~is_speech']_vars

\* the second loud frame in a row of a detector that asks for three: both
\* raw-classified speech, the detector still silent
C15_Witness ==
    /\ vad_op = "process_frame"
    /\ min_speech_frames = 3
    /\ speech_history = <<TRUE, TRUE>>
    /\ total_frames = 2
    /\ ~is_speech

(* ------------------------- pipeline: properties ------------------------ *)

\* C11: in the end-to-end scenario (threshold 0.5, min_speech_frames 2,
\* min_silence_frames 2, one-second window) is_speech first becomes true no
\* earlier than frame 2, returns to false no earlier than two silent frames
\* after the amplitude drop and does so within the ten frames, and a
\* read_recent over the window returns every sample written, in order.
C11_EndToEnd ==
    /\ speech_frames > 0 => vad_fed >= 2
    /\ (speech_frames > 0 /\ ~is_speech) => vad_fed >= LoudFrames + 2
    /\ vad_fed = Len(ScenarioAmplitudes) => (speech_frames > 0 /\ ~is_speech)
    /\ (op = "read_recent" /\ arg >= TicksPerSecond)
            => (ret = ScenarioSamples(vad_fed) /\ Len(ret) = size)

\* the whole scenario fed to the detector with min_silence_frames = 2, and the
\* window read back: the loud half, then the silent half
C11_Witness ==
    /\ vad_fed = Len(ScenarioAmplitudes)
    /\ min_speech_frames = 2
    /\ min_silence_frames = 2
    /\ speech_frames > 0
    /\ ~is_speech
    /\ op = "read_recent"
    /\ arg = TicksPerSecond
    /\ Len(ret) = 2 * Len(ScenarioAmplitudes)
    /\ ret[2 * LoudFrames] = Unit
    /\ ret[2 * LoudFrames + 1] = 0

(* ------------------------ AudioCapture: properties --------------------- *)

\* C16: the audio callback never waits for the detector lock: while another
\* thread holds it, an invocation can begin and can finish; it skips
\* classification (the frame's speech flag stays false and the detector state
\* is unchanged) and still writes the frame to the ring buffer.
C16_SkipsWhenContended ==
    /\ [](\A s \in StreamSlots :
            (streams[s].live /\ cb_pc[s] = "idle" /\ cap_fed < MaxCapFrames /\ vad_lock # 0)
                => \A frame_data \in CapFrames : ENABLED ProcessAudioDataClassify(s, frame_data))
    /\ [](\A s \in StreamSlots : cb_pc[s] = "skipped" => ENABLED ProcessAudioDataFinish(s))
    /\ [][\A s \in StreamSlots :
            (cb_pc[s] = "idle" /\ cb_pc'[s] # "idle" /\ vad_lock # 0)
                => /\ cb_pc'[s] = "skipped"
                   /\ cb_frame'[s].is_speech = FALSE
                   /\ vad_lock' = vad_lock
                   /\ UNCHANGED vadVars]_vars
    /\ [][\A s \in StreamSlots :
            (cb_pc[s] = "skipped" /\ cb_pc'[s] = "idle")
                => /\ op' = "write_frame"
                   /\ arg' = cb_frame[s].data
                   /\ ret' = Min(Len(cb_frame[s].data), capacity)
                   /\ written' = LastN(written \o cb_frame[s].data, capacity)
                   /\ cb_frame'[s].is_speech = FALSE
                   /\ vad_lock' = vad_lock
                   /\ UNCHANGED vadVars]_vars

\* of two invocations in all, the second skipped the detector, wrote its loud
\* frame and returned while the first still holds the lock
C16_Witness ==
    \E s, t \in StreamSlots :
        /\ s # t
        /\ cap_fed = 2
        /\ vad_lock = t
        /\ cb_pc[t] = "locked"
        /\ cb_frame[t].data = <<0>>
        /\ cb_pc[s] = "idle"
        /\ cb_frame[s].data = <<Unit>>
        /\ cb_frame[s].classified = FALSE
        /\ op = "write_frame"
        /\ arg = <<Unit>>

\* C17: within each callback invocation the level listener is called before
\* the speech-state listener, with the frame's RMS energy and the frame's
\* speech flag, after the buffer write and statistics update of that frame.
C17_LevelBeforeSpeech ==
    \A s \in StreamSlots :
        cb_pc[s] = "idle" =>
            /\ \A i, j \in DOMAIN notes[s] :
                    (notes[s][i].kind = "level" /\ notes[s][j].kind = "speech") => i < j
            /\ \A i \in DOMAIN notes[s] :
                    /\ notes[s][i].stored
                    /\ notes[s][i].kind = "level"
                            => notes[s][i].value = cb_frame[s].energy_level
                    /\ notes[s][i].kind = "speech"
                            => notes[s][i].value = cb_frame[s].is_speech

\* C18: after set_level_callback / set_speech_callback every later callback
\* invocation notifies the listener registered last and no other one, also
\* when the registration happens while a capture stream is running.
C18_ReplacingRegistration ==
    [][\A s \in StreamSlots :
        /\ (cb_pc[s] = "idle" /\ cb_pc'[s] = "locked" /\ speech_callback # 0)
                => /\ Len(notes'[s]) = 1
                   /\ notes'[s][1].kind = "speech"
                   /\ notes'[s][1].to = speech_callback
        /\ (cb_pc[s] # "idle" /\ cb_pc'[s] = "idle" /\ level_callback # 0)
                => /\ Len(notes'[s]) = Len(notes[s]) + 1
                   /\ notes'[s][Len(notes'[s])].kind = "level"
                   /\ notes'[s][Len(notes'[s])].to = level_callback
        /\ \A i \in DOMAIN notes'[s] :
                notes'[s] # notes[s]
                    => notes'[s][i].to = IF notes'[s][i].kind = "level"
                                         THEN level_callback ELSE speech_callback
      ]_vars

\* C19: the capture state only moves Stopped -> Starting -> Recording
\* (successful start_capture), Recording -> Stopped (stop_capture), or to
\* Error on failure; no other transition occurs, and a start_capture issued
\* while Recording never takes the state back to Starting.
C19_StateTransitions ==
    [][cap_state' # cap_state =>
        \/ cap_state = "Stopped" /\ cap_state' = "Starting" /\ cap_op' = "start_capture"
        \/ cap_state = "Starting" /\ cap_state' = "Recording" /\ cap_ret' = "Ok"
        \/ cap_state = "Recording" /\ cap_state' = "Stopped" /\ cap_op' = "stop_capture"
        \/ cap_state' = "Error" /\ cap_ret' \in StartErrors
      ]_vars

\* C20: when start_capture fails the typed error is returned without retry,
\* no stream is installed, is_recording stays as it was, and the capture state
\* becomes Error rather than remaining Starting.
C20_FailureGoesToError ==
    [][(cap_ret = "pending" /\ cap_ret' # "pending" /\ cap_ret' # "Ok") =>
        /\ cap_ret' \in StartErrors
        /\ main_pc' = "idle"
        /\ stream' = stream
        /\ streams' = streams
        /\ is_recording' = is_recording
        /\ cap_state' = "Error"
      ]_vars

(* ------------------- detector: hysteresis, reset, counters -------------- *)

C26_HistoryBounded ==
    (vad_op = "process_frame" /\ Len(vad_arg) > 0) =>
        /\ Len(speech_history) <= Max(min_speech_frames, min_silence_frames)
        /\ Len(energy_window) <= WindowSize

\* C27: process_frame on an empty frame returns is_speech false, confidence 0
\* and energy 0 and leaves the whole detector state unchanged, also when the
\* detector is in the speech state.
C27_EmptyFrameNoEffect ==
    [][(vad_op' = "process_frame" /\ Len(vad_arg') = 0) =>
        /\ vad_ret' = [is_speech |-> FALSE, confidence |-> 0, energy_level |-> 0]
        /\ UNCHANGED <<energy_window, speech_history, noise_level, is_speech,
                       total_frames, speech_frames, energy_threshold,
                       min_speech_frames, min_silence_frames, noise_alpha>>
      ]_vars

\* an empty frame was handed to a detector in the speech state
C27_Witness ==
    /\ vad_op = "process_frame"
    /\ Len(vad_arg) = 0
    /\ is_speech
    /\ speech_frames > 0
    /\ vad_ret.is_speech = FALSE

\* C28: after reset() the detector is silent with empty energy window and
\* history, the noise level at its initial value and both counters 0, the
\* configuration unchanged: it is in the state of a freshly constructed detector
\* of that configuration, so frames processed from there give the same results;
\* a second reset changes nothing.
C28_ResetIsFresh ==
    /\ [](vad_op = "reset" =>
            /\ energy_window = <<>>
            /\ speech_history = <<>>
            /\ is_speech = FALSE
            /\ noise_level = InitialNoiseLevel
            /\ total_frames = 0
            /\ speech_frames = 0)
    /\ [][vad_op' = "reset" =>
            UNCHANGED <<energy_threshold, min_speech_frames, min_silence_frames,
                        noise_alpha>>]_vars
    /\ [][(vad_op = "reset" /\ vad_op' = "reset") =>
            UNCHANGED <<energy_window, speech_history, is_speech, noise_level,
                        total_frames, speech_frames>>]_vars

\* a detector configured for a noisy room was reset after it had reported speech
C28_Witness ==
    /\ vad_op = "reset"
    /\ min_speech_frames = 3
    /\ last_returned
    /\ vad_fed >= 2

\* each non-empty process_frame adds one to total_frames, and one to
\* speech_frames exactly when it returns is_speech
CountersFollowResults ==
    [][vad_fed' = vad_fed + 1 =>
        /\ total_frames' = total_frames + 1
        /\ speech_frames' = speech_frames + (IF vad_ret'.is_speech THEN 1 ELSE 0)
      ]_vars

\* C29 as stated: speech_frames <= total_frames in every state, the counters
\* follow the results, and the is_speech reported by get_stats equals the
\* is_speech returned by the last non-empty process_frame.
C29_StatsMatchLastResult ==
    /\ [](speech_frames <= total_frames)
    /\ CountersFollowResults
    /\ []((vad_op = "get_stats" /\ vad_fed > 0) => vad_ret.is_speech = last_returned)

\* C29, amended: speech_frames <= total_frames in every state, the counters
\* follow the results, and the is_speech reported by get_stats equals the
\* is_speech returned by the last non-empty process_frame made since
\* construction or the last reset, and is false when there was none.
C29_StatsMatchLastResultSinceReset ==
    /\ [](speech_frames <= total_frames)
    /\ CountersFollowResults
    /\ [](vad_op = "get_stats" =>
            vad_ret.is_speech = (IF total_frames > 0 THEN last_returned ELSE FALSE))

\* statistics taken in the speech state, after frames of both kinds
C29_Witness ==
    /\ vad_op = "get_stats"
    /\ vad_ret.is_speech
    /\ 0 < speech_frames
    /\ speech_frames < total_frames

\* C30: a frame is raw-classified as speech only when the smoothed energy is
\* strictly greater than max(2 * noise level, configured threshold, noise
\* floor); an energy equal to the threshold does not count, so a detector whose
\* smoothed energy never exceeded the configured threshold is never in the
\* speech state.
C30_StrictlyAboveThreshold ==
    /\ [](is_speech => ever_above)
    /\ [][vad_fed' = vad_fed + 1 =>
            /\ last_raw' <=>
                  SumSeq(energy_window') >
                    Max(Max(2 * noise_level', energy_threshold), NoiseFloor)
                      * Len(energy_window')
            /\ speech_history'[Len(speech_history')] = last_raw'
            /\ last_raw' => ever_above'
          ]_vars

\* a frame whose smoothed energy equals the threshold was classified as silence
C30_Witness ==
    /\ vad_op = "process_frame"
    /\ Len(vad_arg) > 0
    /\ energy_threshold > 0
    /\ SumSeq(energy_window) = energy_threshold * Len(energy_window)
    /\ 2 * noise_level <= energy_threshold
    /\ ~last_raw
    /\ ~is_speech

(* ------------- capture: drops, stop, statistics under contention -------- *)

\* C21: every callback invocation whose ring-buffer write fails increments the
\* drop counter by one and processing goes on with the next invocation; the
\* frames_dropped value get_stats() returns equals the number of failed writes
\* (those made before get_stats took the statistics).
C21_DropsCounted ==
    /\ [][\A s \in StreamSlots :
            (cb_pc[s] # "idle" /\ cb_pc'[s] = "idle") =>
                frames_dropped' = frames_dropped + (IF poisoned THEN 1 ELSE 0)]_vars
    /\ [][(main_pc = "idle" /\ main_pc' = "stats") =>
            stats.frames_dropped = frames_dropped]_vars
    /\ [][(main_pc = "stats" /\ main_pc' = "idle") =>
            cap_ret'.frames_dropped = stats.frames_dropped]_vars

\* C22: after stop_capture returns the state is Stopped, is_recording is false,
\* the stream handle is released and no callback invocation occurs: buffer,
\* detector, statistics and listeners see no frame until the next successful
\* start_capture.
C22_QuietAfterStop ==
    /\ []((cap_op = "stop_capture" /\ main_pc = "idle") =>
            /\ cap_state = "Stopped"
            /\ is_recording = FALSE
            /\ stream = 0
            /\ \A s \in StreamSlots : ~streams[s].live /\ cb_pc[s] = "idle")
    /\ [][(cap_built = "ok" /\ stream = 0 /\ main_pc # "played") =>
            UNCHANGED <<data, write_pos, size, is_full, written, vadVars, stats,
                        frames_processed, frames_dropped, notes, cb_frame, cap_fed>>]_vars

\* a capture that has processed a frame was stopped, with invocations to spare
C22_Witness ==
    /\ cap_op = "stop_capture"
    /\ cap_state = "Stopped"
    /\ frames_processed >= 1
    /\ cap_fed < MaxCapFrames
    /\ written # <<>>

\* C23: a read_recent that runs next to write_frame and clear calls of other
\* threads returns a chronologically ordered, contiguous suffix of the samples
\* of completed writes that were stored at some point during the call: never
\* more samples than were stored then, never cleared or unwritten samples.
C23_ReadSeesStoredSuffix ==
    [][(rd_pc = "loaded" /\ rd_pc' = "idle") =>
        \E w \in rd_seen :
            /\ Len(ret') <= Len(w)
            /\ ret' = LastN(w, Len(ret'))
      ]_vars

\* C24: when the statistics are locked by another thread during a callback
\* invocation the callback does not wait: it leaves the levels, frames_processed
\* and the latency as they are and still calls the level listener;
\* frames_processed counts exactly the invocations whose update was performed.
C24_StatsSkippedWhenLocked ==
    /\ [](\A s \in StreamSlots : cb_pc[s] # "idle" => ENABLED ProcessAudioDataFinish(s))
    /\ [][\A s \in StreamSlots :
            (cb_pc[s] # "idle" /\ cb_pc'[s] = "idle") =>
                /\ IF stats_lock = "free"
                   THEN /\ frames_processed' = frames_processed + 1
                        /\ stats'.frames_processed = frames_processed'
                        /\ stats'.current_level = cb_frame[s].energy_level
                        /\ stats'.processing_latency_ms = cb_frame[s].timestamp
                   ELSE UNCHANGED <<stats, frames_processed>>
                /\ streams[s].level_callback # 0 =>
                        /\ Len(notes'[s]) = Len(notes[s]) + 1
                        /\ notes'[s][Len(notes'[s])].kind = "level"
                        /\ notes'[s][Len(notes'[s])].value = cb_frame[s].energy_level
          ]_vars
    /\ [][frames_processed' # frames_processed =>
            \E s \in StreamSlots : cb_pc[s] # "idle" /\ cb_pc'[s] = "idle"]_vars

\* the last invocation returned while get_stats held the statistics: its level
\* listener was called, and neither the latency nor the count is its own
C24_Witness ==
    \E s \in StreamSlots :
        /\ stats_lock = "owner"
        /\ cb_pc[s] = "idle"
        /\ cap_fed = 2
        /\ cb_frame[s].timestamp = cap_fed
        /\ stats.processing_latency_ms = 1
        /\ frames_processed = 1
        /\ notes[s] # <<>>
        /\ notes[s][Len(notes[s])].kind = "level"

InitMonitor ==
    /\ BufferUnbuilt(1, 0)
    /\ VadNew(Unit \div 2)
    /\ CaptureUnbuilt
    /\ \E entries \in 0..MaxMonitorWindow : MonitorNew(entries)

NextMonitor ==
    \E component \in Components, latency \in Latencies : RecordLatency(component, latency)

SpecMonitor == InitMonitor /\ [][NextMonitor]_vars

(* ------------------ capture: queries, listeners, restart ---------------- *)

\* C36: in every state reached by start_capture (successful or failing) and
\* stop_capture calls, is_recording() is true exactly when get_state() is
\* Recording and exactly when a stream handle is held.
C36_RecordingIffState ==
    (cap_built = "ok" /\ main_pc = "idle") =>
        /\ IsRecording <=> GetState = "Recording"
        /\ IsRecording <=> stream # 0

\* how many calls of one kind of listener an invocation made
CallsOf(made, kind) == Cardinality({i \in DOMAIN made : made[i].kind = kind})

\* C31: on every callback invocation each registered listener is invoked
\* exactly once: the speech-state listener is notified for every frame, also
\* for frames whose classification was skipped because the detector was
\* contended.
C31_EachListenerOnce ==
    [][\A s \in StreamSlots :
        (cb_pc[s] # "idle" /\ cb_pc'[s] = "idle") =>
            /\ (streams[s].level_callback # 0 => CallsOf(notes'[s], "level") = 1)
            /\ (streams[s].speech_callback # 0 => CallsOf(notes'[s], "speech") = 1)]_vars

\* C32: in the statistics record peak_level >= current_level holds after every
\* update and peak_level never decreases over any sequence of callback
\* invocations; current_level always equals the RMS energy of the last frame
\* whose statistics update was performed.
C32_PeakAndCurrentLevel ==
    /\ [](stats.peak_level >= stats.current_level)
    /\ [][stats'.peak_level >= stats.peak_level]_vars
    /\ [][\A s \in StreamSlots :
            (cb_pc[s] # "idle" /\ cb_pc'[s] = "idle" /\ stats_lock = "free")
                => stats'.current_level = CalculateRmsEnergy(cb_frame[s].data)]_vars
    /\ [][(\A s \in StreamSlots :
                ~(cb_pc[s] # "idle" /\ cb_pc'[s] = "idle" /\ stats_lock = "free"))
                => stats'.current_level = stats.current_level]_vars

\* a loud frame, then a silent one whose update was performed, then one whose
\* update was skipped: the peak stays at the loud frame's energy and the
\* current level at the silent frame's
C32_Witness ==
    /\ cap_fed = 3
    /\ \A s \in StreamSlots : cb_pc[s] = "idle"
    /\ stats.frames_processed = 2
    /\ stats.peak_level = CalculateRmsEnergy(<<Unit>>)
    /\ stats.current_level = 0
    /\ stats.peak_level > 0
    /\ \E s \in StreamSlots : cb_frame[s].data = <<Unit>> /\ cb_frame[s].timestamp = 3

C37_NoLockWhileListenerRuns ==
    [][\A s \in StreamSlots :
        /\ (cb_pc[s] = "idle" /\ cb_pc'[s] # "idle" /\ CallsOf(notes'[s], "speech") > 0)
                => vad_lock' # s
        /\ (cb_pc[s] # "idle" /\ cb_pc'[s] = "idle" /\ CallsOf(notes'[s], "level") > 0)
                => vad_lock' # s]_vars

\* C38: stop_capture and a following start_capture leave the ring buffer
\* (samples, cursor, count, full flag) and the detector state unchanged: audio
\* written before a stop stays retrievable through get_recent_audio after the
\* stop and after a restart, in order and ahead of the newly captured samples.
C38_RestartKeepsAudio ==
    /\ [][(cap_op' \in {"stop_capture", "start_capture"}
            /\ (cap_calls' # cap_calls \/ main_pc' # main_pc))
                => UNCHANGED <<data, write_pos, size, is_full, written,
                               energy_threshold, min_speech_frames, min_silence_frames,
                               noise_alpha, energy_window, speech_history, is_speech,
                               noise_level, total_frames, speech_frames>>]_vars
    /\ []((cap_built = "ok" /\ op = "read_recent")
            => ret = LastN(written, SamplesIn(sample_rate, arg)))

\* one frame was captured before the stop and one after the restart; the read
\* made then returns both, the older sample first
C38_Witness ==
    /\ cap_state = "Recording"
    /\ cap_op = "start_capture"
    /\ fed_at_stop = 1
    /\ cap_fed = 2
    /\ \A s \in StreamSlots : cb_pc[s] = "idle"
    /\ op = "read_recent"
    /\ written = <<Unit, 0>>
    /\ ret = written

(* ------------------- buffer: structural invariant ----------------------- *)

\* C34: over any sequence of write_frame and clear calls the write cursor is
\* below capacity, the full flag is set exactly when count = capacity, and
\* while the buffer is not full count = write cursor; so a sequential
\* read_recent never takes the start offset 0 with write cursor < n.
C34_RingStructure ==
    buf_state = "ok" =>
        /\ write_pos < capacity
        /\ is_full <=> size = capacity
        /\ ~is_full => size = write_pos
        /\ \A ticks \in 0..MaxDurationTicks :
                LET n == SamplesNeeded(sample_rate, ticks, size) IN
                ~(n > 0 /\ write_pos < n /\ ~is_full)

\* a read of everything stored in a buffer that is not full: it starts at 0
\* because the write cursor equals the number of samples asked for
C34_Witness ==
    /\ op = "read_recent"
    /\ ~is_full
    /\ write_pos > 0
    /\ Len(ret) = write_pos
    /\ Len(written) = write_pos
    /\ offered < capacity

(* --------------------- PerformanceMonitor: properties ------------------- *)

\* C39: after any sequence of record_*_latency calls each latency queue holds
\* at most window_size entries, and these are the most recently recorded
\* measurements of that component, in recording order.
C39_QueuesHoldNewest ==
    \A c \in Components :
        /\ Len(latencies[c]) <= window_size
        /\ latencies[c] = LastN(recorded[c], window_size)

\* a component recorded more measurements than its window holds
C39_Witness ==
    \E c \in Components :
        /\ window_size >= 2
        /\ Len(recorded[c]) > window_size
        /\ Len(latencies[c]) = window_size
        /\ latencies[c][1] # latencies[c][2]

(* ------------------ detector: activation on a qualifying frame ---------- *)

\* C35: the detector never switches from silent to speech on a frame whose
\* own raw classification is silence: every silent-to-speech transition
\* happens on a frame whose smoothed energy is above the dynamic threshold.
C35_ActivatesOnQualifyingFrame ==
    [][(vad_fed' = vad_fed + 1 /\ ~is_speech /\ is_speech') => last_raw']_vars

====
